---------------------------- MODULE Spec2Model ----------------------------
(***************************************************************************)
(* SIMON-64 and SIMON-128 block ciphers (simon.cpp): key schedule, block   *)
(* transform, and the cipher object that holds the round keys and a        *)
(* four-word workspace.                                                    *)
(*                                                                         *)
(* A byte is a number in 0..255.  A word (word32 / word64) is the tuple of  *)
(* its four or eight bytes, least significant first, so every operation    *)
(* keeps the width of the word.  A size_t is four 16-bit limbs, least      *)
(* significant first, so that i -= 2 wraps modulo 2^64.                    *)
(***************************************************************************)
EXTENDS Integers, Sequences, FiniteSets, TLC

VARIABLES
    cls,        \* the class of the object: "SIMON64" or "SIMON128"
    m_kwords,   \* Base::m_kwords, 0 before the first key
    m_rounds,   \* Base::m_rounds, 0 before the first key
    m_rkeys,    \* Base::m_rkeys, the round-key table
    m_wspace,   \* Base::m_wspace, the workspace
    mem,        \* the caller's byte buffers
    origin,     \* history: the transform and the block a buffer's block came from
    call,       \* history: the last call made on the object; pre is the
                \* input block of a transform, the previous key of a SetKey
    snap,       \* history: the object's fields right after the last key setup
    ncalls,     \* history: block transforms made so far
    cur,        \* the caller's buffer that holds its current block
    thr,        \* the threads of a concurrent run
    lp,         \* the frame of a running SIMON_Encrypt / SIMON_Decrypt
    ks          \* the frame of a running key expansion

vars == <<cls, m_kwords, m_rounds, m_rkeys, m_wspace, mem, origin, call, snap,
          ncalls, cur, thr, lp, ks>>

---------------------------------------------------------------------------
(* Bounds of the model.                                                    *)

\* generated user keys per accepted key length, beside the published ones
NKeys == 1
\* generated blocks, beside the published plaintexts
NBlocks == 1
\* block transforms in one run of the object
MaxCalls == 2

---------------------------------------------------------------------------
(* Words.  A word is the tuple of its bytes, least significant first:      *)
(* four bytes for a word32, eight for a word64.  The operations on bytes   *)
(* are computed bit by bit and tabulated once, for all pairs of bytes.     *)

\* the function fn on 1..n as the tuple <<fn[1], ..., fn[n]>>
Tuple(fn, n) == SubSeq(fn, 1, n)

\* bit t of the byte a
Bit(a, t) == (a \div (2 ^ t)) % 2

\* a & b on bytes
AndByte(a, b) ==
    Bit(a, 0) * Bit(b, 0) + 2 * Bit(a, 1) * Bit(b, 1)
    + 4 * Bit(a, 2) * Bit(b, 2) + 8 * Bit(a, 3) * Bit(b, 3)
    + 16 * Bit(a, 4) * Bit(b, 4) + 32 * Bit(a, 5) * Bit(b, 5)
    + 64 * Bit(a, 6) * Bit(b, 6) + 128 * Bit(a, 7) * Bit(b, 7)

\* a ^ b on bytes
XorByte(a, b) == a + b - 2 * AndByte(a, b)

\* byte j of rotlConstant<k>(v), 0 < k <= 8, from byte j of v (a) and the
\* byte below it (b)
RotlByte(k, a, b) == ((a * (2 ^ k)) % 256) + (b \div (2 ^ (8 - k)))

\* byte j of rotrConstant<k>(v), 0 < k < 8, from byte j of v (a) and the
\* byte above it (b)
RotrByte(k, a, b) == (a \div (2 ^ k)) + (b % (2 ^ k)) * (2 ^ (8 - k))

\* the pairs of bytes <<a, b>>, numbered 256 * a + b + 1
Pairs == 1..(256 * 256)

\* the tables of the operations on bytes: the entry for a, b is at index
\* 256 * a + b + 1
XorTable ==
    Tuple([x \in Pairs |-> XorByte((x - 1) \div 256, (x - 1) % 256)], 256 * 256)

AndTable ==
    Tuple([x \in Pairs |-> AndByte((x - 1) \div 256, (x - 1) % 256)], 256 * 256)

Rotl1Table ==
    Tuple([x \in Pairs |-> RotlByte(1, (x - 1) \div 256, (x - 1) % 256)], 256 * 256)

Rotl2Table ==
    Tuple([x \in Pairs |-> RotlByte(2, (x - 1) \div 256, (x - 1) % 256)], 256 * 256)

Rotr1Table ==
    Tuple([x \in Pairs |-> RotrByte(1, (x - 1) \div 256, (x - 1) % 256)], 256 * 256)

Rotr3Table ==
    Tuple([x \in Pairs |-> RotrByte(3, (x - 1) \div 256, (x - 1) % 256)], 256 * 256)

Rotr4Table ==
    Tuple([x \in Pairs |-> RotrByte(4, (x - 1) \div 256, (x - 1) % 256)], 256 * 256)

\* the word whose byte j is tab(a[j], b[j])
Zip(tab, a, b) ==
    IF Len(a) = 4
    THEN <<tab[256 * a[1] + b[1] + 1], tab[256 * a[2] + b[2] + 1],
           tab[256 * a[3] + b[3] + 1], tab[256 * a[4] + b[4] + 1]>>
    ELSE <<tab[256 * a[1] + b[1] + 1], tab[256 * a[2] + b[2] + 1],
           tab[256 * a[3] + b[3] + 1], tab[256 * a[4] + b[4] + 1],
           tab[256 * a[5] + b[5] + 1], tab[256 * a[6] + b[6] + 1],
           tab[256 * a[7] + b[7] + 1], tab[256 * a[8] + b[8] + 1]>>

\* the bytes of v moved up by one place, the top byte to the bottom:
\* byte j is the byte below byte j of v
Down(v) ==
    IF Len(v) = 4 THEN <<v[4], v[1], v[2], v[3]>>
    ELSE <<v[8], v[1], v[2], v[3], v[4], v[5], v[6], v[7]>>

\* the bytes of v moved down by one place: byte j is the byte above byte j
Up(v) ==
    IF Len(v) = 4 THEN <<v[2], v[3], v[4], v[1]>>
    ELSE <<v[2], v[3], v[4], v[5], v[6], v[7], v[8], v[1]>>

\* a ^ b on words
XOR(a, b) == Zip(XorTable, a, b)

\* a & b on words
AND(a, b) == Zip(AndTable, a, b)

\* rotlConstant<k>(v), for k = 1, 2, 8
rotlConstant(k, v) ==
    IF k = 8 THEN Down(v)
    ELSE Zip(IF k = 1 THEN Rotl1Table ELSE Rotl2Table, v, Down(v))

\* rotrConstant<k>(v), for k = 1, 3, 4
rotrConstant(k, v) ==
    Zip(IF k = 1 THEN Rotr1Table ELSE IF k = 3 THEN Rotr3Table ELSE Rotr4Table,
        v, Up(v))

\* the word with the value b, for a byte b, of n bytes
WordOf(b, n) == IF n = 4 THEN <<b, 0, 0, 0>> ELSE <<b, 0, 0, 0, 0, 0, 0, 0>>

\* a word that was allocated and never written: no bytes
Uninit == << >>

\* a load that takes the first byte as the least significant
WordFromBytesLittle(bs, from, n) == Tuple([j \in 1..n |-> bs[from + j - 1]], n)

\* GetBlock / GetUserKey with BIG_ENDIAN_ORDER: the n-byte word stored at
\* bs[from], ..., bs[from + n - 1], the first byte being the most significant
WordFromBytes(bs, from, n) == Tuple([j \in 1..n |-> bs[from + n - j]], n)

\* PutBlock with BigEndian: the bytes of the word v, most significant first
BytesFromWord(v) == Tuple([j \in 1..Len(v) |-> v[Len(v) + 1 - j]], Len(v))

---------------------------------------------------------------------------
(* size_t and the casts of the loop tests.                                 *)

Limb == 2 ^ 16

SizeT(n) == <<n, 0, 0, 0>>

RECURSIVE AddLimbs(_, _, _)
AddLimbs(s, j, carry) ==
    IF j > 4 THEN s
    ELSE AddLimbs([s EXCEPT ![j] = (s[j] + carry) % Limb], j + 1,
                  (s[j] + carry) \div Limb)

\* i += n on a size_t
SizeAdd(s, n) == AddLimbs(s, 1, n)

RECURSIVE SubLimbs(_, _, _)
SubLimbs(s, j, borrow) ==
    IF j > 4 THEN s
    ELSE SubLimbs([s EXCEPT ![j] = (s[j] + Limb - borrow) % Limb], j + 1,
                  IF s[j] < borrow THEN 1 ELSE 0)

\* i -= n on a size_t: modulo 2^64
SizeSub(s, n) == SubLimbs(s, 1, n)

\* static_cast<int>(i): the low 32 bits, as a two's complement number
CastInt(s) == s[1] + Limb * (IF s[2] >= 32768 THEN s[2] - Limb ELSE s[2])

\* static_cast<int>(i) < n with n an unsigned int below 2^16: the int is
\* converted to unsigned, so the low 32 bits are compared as they stand
CastIntBelow(s, n) == s[2] = 0 /\ s[1] < n

\* the index a size_t denotes into an array of n elements, or -1: outside
IndexOf(s, n) ==
    IF s[2] = 0 /\ s[3] = 0 /\ s[4] = 0 /\ s[1] < n THEN s[1] ELSE -1

\* k[i]; a read outside the array yields whatever lies there, here a
\* zero word, and IndexOf records it as -1
At(k, s) ==
    IF IndexOf(s, Len(k)) >= 0 THEN k[IndexOf(s, Len(k)) + 1]
    ELSE WordOf(0, Len(k[1]))

---------------------------------------------------------------------------
(* Round function.                                                         *)

f(v) == XOR(AND(rotlConstant(1, v), rotlConstant(8, v)), rotlConstant(2, v))

\* the second half of R2, x ^= f(y); x ^= l: the pair <<x, y>> afterwards
R2x(x, y, l) == <<XOR(XOR(x, f(y)), l), y>>

\* R2(x, y, k, l), y ^= f(x); y ^= k; then the second half: the pair
\* <<x, y>> after the two rounds
R2(x, y, k, l) == R2x(x, XOR(XOR(y, f(x)), k), l)

\* a pair with its words exchanged
Swap(r) == <<r[2], r[1]>>

---------------------------------------------------------------------------
(* SIMON_Encrypt and SIMON_Decrypt, one loop iteration at a time.  A frame *)
(* holds the array being transformed (c, resp. p), the loop counter i, the *)
(* place in the function, and the indices of k read so far.                *)

\* SIMON_Encrypt: c[0]=p[0]; c[1]=p[1]; i = 0
EncStart(p) ==
    [pc |-> "loop", c |-> p, i |-> SizeT(0), reads |-> << >>]

\* a loop test that lets i reach R - 1
EncCondWhole(i, R) == CastIntBelow(i, R)

\* the test of SIMON_Encrypt's loop
EncCond(i, R) == CastIntBelow(i, R - 1)

EncStep(s, k, R) ==
    IF s.pc = "loop"
    THEN IF EncCond(s.i, R)
         THEN [s EXCEPT !.c = R2(s.c[1], s.c[2], At(k, s.i), At(k, SizeAdd(s.i, 1))),
                        !.i = SizeAdd(s.i, 2),
                        !.reads = @ \o <<IndexOf(s.i, R),
                                         IndexOf(SizeAdd(s.i, 1), R)>>]
         ELSE [s EXCEPT !.pc = "tail"]
    ELSE IF R % 2 = 1
         THEN [s EXCEPT !.c = <<XOR(XOR(s.c[2], f(s.c[1])), At(k, SizeT(R - 1))),
                                s.c[1]>>,
                        !.pc = "done",
                        !.reads = Append(@, IndexOf(SizeT(R - 1), R))]
         ELSE [s EXCEPT !.pc = "done"]

RECURSIVE EncRun(_, _, _)
EncRun(s, k, R) ==
    IF s.pc = "done" THEN s ELSE EncRun(EncStep(s, k, R), k, R)

\* SIMON_Encrypt<W, R>(c, p, k): the array c on return
SIMON_Encrypt(p, k, R) == EncRun(EncStart(p), k, R).c

\* SIMON_Decrypt: p[0]=c[0]; p[1]=c[1]; rounds = R
DecStart(c) ==
    [pc |-> "prologue", c |-> c, i |-> SizeT(0), reads |-> << >>]

\* a loop test that stops before i = 0
DecCondPositive(i) == CastInt(i) > 0

\* the test of SIMON_Decrypt's loop
DecCond(i) == CastInt(i) >= 0

DecStep(s, k, R) ==
    IF s.pc = "prologue"
    THEN IF R % 2 = 1
         THEN [s EXCEPT !.c = <<s.c[2],
                                XOR(XOR(s.c[1], At(k, SizeT(R - 1))), f(s.c[2]))>>,
                        !.pc = "loop",
                        !.i = SizeSub(SizeT(R - 1), 2),
                        !.reads = Append(@, IndexOf(SizeT(R - 1), R))]
         ELSE [s EXCEPT !.pc = "loop", !.i = SizeSub(SizeT(R), 2)]
    ELSE IF DecCond(s.i)
         THEN [s EXCEPT !.c = Swap(R2(s.c[2], s.c[1], At(k, SizeAdd(s.i, 1)),
                                      At(k, s.i))),
                        !.i = SizeSub(s.i, 2),
                        !.reads = @ \o <<IndexOf(SizeAdd(s.i, 1), R),
                                         IndexOf(s.i, R)>>]
         ELSE [s EXCEPT !.pc = "done"]

RECURSIVE DecRun(_, _, _)
DecRun(s, k, R) ==
    IF s.pc = "done" THEN s ELSE DecRun(DecStep(s, k, R), k, R)

\* SIMON_Decrypt<W, R>(p, c, k): the array p on return
SIMON_Decrypt(c, k, R) == DecRun(DecStart(c), k, R).c

---------------------------------------------------------------------------
(* Key schedule.  An expansion is named by the bytes n of its word (4 for  *)
(* word32, 8 for word64) and the number m of words of the user key.  A     *)
(* frame holds the part of key[] written so far, z and i.                  *)

\* word64 z = W64LIT(...)
ZConst(n, m) ==
    LET b == CASE n = 4 /\ m = 3 -> <<\h73, \h69, \hf8, \h85, \h19, \h2c, \h0e, \hf5>>
               [] n = 4 /\ m = 4 -> <<\hfc, \h2c, \he5, \h12, \h07, \ha6, \h35, \hdb>>
               [] n = 8 /\ m = 2 -> <<\h73, \h69, \hf8, \h85, \h19, \h2c, \h0e, \hf5>>
               [] n = 8 /\ m = 3 -> <<\hfc, \h2c, \he5, \h12, \h07, \ha6, \h35, \hdb>>
               [] n = 8 /\ m = 4 -> <<\hfd, \hc9, \h4c, \h3a, \h04, \h6d, \h67, \h8b>>
    IN  <<b[8], b[7], b[6], b[5], b[4], b[3], b[2], b[1]>>

\* a constant with the two low bits left set
CConstOnes(n) ==
    IF n = 4 THEN <<\hff, \hff, \hff, \hff>>
    ELSE <<\hff, \hff, \hff, \hff, \hff, \hff, \hff, \hff>>

\* const W c = 0xff...fc
CConst(n) ==
    IF n = 4 THEN <<\hfc, \hff, \hff, \hff>>
    ELSE <<\hfc, \hff, \hff, \hff, \hff, \hff, \hff, \hff>>

\* the bound of each expansion's for loop
LoopEnd(n, m) ==
    CASE n = 4 /\ m = 3 -> 42
      [] n = 4 /\ m = 4 -> 44
      [] n = 8 /\ m = 2 -> 66
      [] n = 8 /\ m = 3 -> 67
      [] n = 8 /\ m = 4 -> 68

\* an expansion that ends with its loop
KeyWordsLoop(n, m) == LoopEnd(n, m)

\* the length of the array each expansion fills: word key[R]
KeyWords(n, m) ==
    CASE n = 4 /\ m = 3 -> 42
      [] n = 4 /\ m = 4 -> 44
      [] n = 8 /\ m = 2 -> 68
      [] n = 8 /\ m = 3 -> 69
      [] n = 8 /\ m = 4 -> 72

\* lines after the loop that all read c ^ ...
TailTermZero(m, i) == 0

\* the constant XORed with c in the assignment to key[i] after the loop
\* of the SIMON128 expansions: 1 where the line reads c ^ 1 ^ ..., else 0
TailTerm(m, i) ==
    CASE m = 2 /\ i = 66 -> 1
      [] m = 2 /\ i = 67 -> 0
      [] m = 3 /\ i = 67 -> 0
      [] m = 3 /\ i = 68 -> 1
      [] m = 4 /\ i = 68 -> 0
      [] m = 4 /\ i = 69 -> 1
      [] m = 4 /\ i = 70 -> 0
      [] m = 4 /\ i = 71 -> 0

\* the right-hand side of key[i] = ..., with term standing for (z & 1) or
\* for the constant of a line after the loop; key[i] of the code is
\* key[i + 1] here
KeyWord(key, i, term, n, m) ==
    LET two == XOR(XOR(XOR(XOR(CConst(n), WordOf(term, n)), key[i - m + 1]),
                       rotrConstant(3, key[i])),
                   rotrConstant(4, key[i]))
    IN  IF m = 4
        THEN XOR(XOR(two, key[i - 2]), rotrConstant(1, key[i - 2]))
        ELSE two

\* key[0..m-1] = k[m-1..0]; z; i = m
ExpStart(k, n, m) ==
    [key |-> IF m = 2 THEN <<k[2], k[1]>>
             ELSE IF m = 3 THEN <<k[3], k[2], k[1]>>
             ELSE <<k[4], k[3], k[2], k[1]>>,
     z |-> ZConst(n, m), i |-> m, term |-> 0, pc |-> "run"]

\* z & 1
LowBit(z) == z[1] % 2

\* z >>= 1 on a word64
ShiftRight1(z) ==
    Tuple([j \in 1..8 |-> (z[j] \div 2) + (IF j = 8 THEN 0 ELSE (z[j + 1] % 2) * 128)], 8)

ExpStep(s, n, m) ==
    IF s.i < LoopEnd(n, m)
    THEN [s EXCEPT !.key = Append(@, KeyWord(s.key, s.i, LowBit(s.z), n, m)),
                   !.term = LowBit(s.z),
                   !.z = ShiftRight1(s.z),
                   !.i = s.i + 1]
    ELSE IF s.i < KeyWords(n, m)
    THEN [s EXCEPT !.key = Append(@, KeyWord(s.key, s.i, TailTerm(m, s.i), n, m)),
                   !.term = TailTerm(m, s.i),
                   !.i = s.i + 1]
    ELSE [s EXCEPT !.pc = "done"]

RECURSIVE ExpRun(_, _, _)
ExpRun(s, n, m) ==
    IF s.pc = "done" THEN s ELSE ExpRun(ExpStep(s, n, m), n, m)

\* each expansion: the words it writes to key[0], key[1], ...
SIMON64_ExpandKey_42R3K(k) == ExpRun(ExpStart(k, 4, 3), 4, 3).key

SIMON64_ExpandKey_44R4K(k) == ExpRun(ExpStart(k, 4, 4), 4, 4).key

SIMON128_ExpandKey_68R2K(k) == ExpRun(ExpStart(k, 8, 2), 8, 2).key

SIMON128_ExpandKey_69R3K(k) == ExpRun(ExpStart(k, 8, 3), 8, 3).key

SIMON128_ExpandKey_72R4K(k) == ExpRun(ExpStart(k, 8, 4), 8, 4).key

---------------------------------------------------------------------------
(* The cipher object: SIMON64::Base / SIMON128::Base with Enc and Dec.     *)

\* sizeof(word32), sizeof(word64)
WordBytes(c) == IF c = "SIMON64" THEN 4 ELSE 8

\* no buffer: the NULL xorBlock of ProcessBlock
NULL == "NULL"

\* the fields of the object, as one record
Obj ==
    [kwords |-> m_kwords, rounds |-> m_rounds, rkeys |-> m_rkeys,
     wspace |-> m_wspace]

\* a word count taken in units of sizeof(word64) for both classes
KWordsWide(c, keyLength) == keyLength \div 8

\* m_kwords = keyLength/sizeof(word)
KWords(c, keyLength) == keyLength \div WordBytes(c)

\* SecBlock::New(n): n words, none written
NewWords(n) == SubSeq(<<Uninit, Uninit, Uninit, Uninit>>, 1, n)

\* m_wspace.New(STDMAX(m_kwords,4U)); GetUserKey(BIG_ENDIAN_ORDER, ...):
\* the first m words hold the user key, the others were never written
UserKeyWords(c, userKey, m) ==
    [j \in 1..m |-> WordFromBytes(userKey, (j - 1) * WordBytes(c) + 1, WordBytes(c))]
    \o SubSeq(NewWords(4), m + 1, 4)

\* the number of words each case of UncheckedSetKey allocates for m_rkeys
RKeysAlloc(c, m) ==
    CASE c = "SIMON64" /\ m = 3 -> 42
      [] c = "SIMON64" /\ m = 4 -> 44
      [] c = "SIMON128" /\ m = 2 -> 68
      [] c = "SIMON128" /\ m = 3 -> 69
      [] c = "SIMON128" /\ m = 4 -> 72

\* the value each case of UncheckedSetKey stores in m_rounds
RoundsOf(c, m) ==
    CASE c = "SIMON64" /\ m = 3 -> 42
      [] c = "SIMON64" /\ m = 4 -> 44
      [] c = "SIMON128" /\ m = 2 -> 68
      [] c = "SIMON128" /\ m = 3 -> 69
      [] c = "SIMON128" /\ m = 4 -> 72

\* the expansion each case of UncheckedSetKey calls
ExpandKey(c, m, k) ==
    CASE c = "SIMON64" /\ m = 3 -> SIMON64_ExpandKey_42R3K(k)
      [] c = "SIMON64" /\ m = 4 -> SIMON64_ExpandKey_44R4K(k)
      [] c = "SIMON128" /\ m = 2 -> SIMON128_ExpandKey_68R2K(k)
      [] c = "SIMON128" /\ m = 3 -> SIMON128_ExpandKey_69R3K(k)
      [] c = "SIMON128" /\ m = 4 -> SIMON128_ExpandKey_72R4K(k)

\* m_rkeys after New(alloc) and the expansion: the words the expansion
\* wrote, then the words of the allocation it did not reach
Fill(alloc, written) ==
    IF Len(written) >= alloc THEN written
    ELSE written \o [j \in 1..(alloc - Len(written)) |-> Uninit]

\* the switch of UncheckedSetKey has a case for m
HasCase(c, m) ==
    \/ c = "SIMON64" /\ m \in {3, 4}
    \/ c = "SIMON128" /\ m \in {2, 3, 4}

\* UncheckedSetKey from its switch on, with m_kwords = m and the
\* workspace ws: the object after the call
SetKeyWith(c, o, m, ws) ==
    IF HasCase(c, m)
    THEN [kwords |-> m,
          rounds |-> RoundsOf(c, m),
          rkeys  |-> Fill(RKeysAlloc(c, m), ExpandKey(c, m, ws)),
          wspace |-> ws]
    ELSE [o EXCEPT !.kwords = m, !.wspace = ws]

\* SIMON64::Base::UncheckedSetKey, SIMON128::Base::UncheckedSetKey:
\* the object after the call
UncheckedSetKey(c, o, userKey) ==
    SetKeyWith(c, o, KWords(c, Len(userKey)),
               UserKeyWords(c, userKey, KWords(c, Len(userKey))))

\* the switch of ProcessAndXorBlock has a case for m_rounds
HasRounds(c, R) ==
    \/ c = "SIMON64" /\ R \in {42, 44}
    \/ c = "SIMON128" /\ R \in {68, 69, 72}

\* the word PutBlock stores: v, XORed with the word of xorBlock if given
PutWord(v, memory, xorBlock, from) ==
    IF xorBlock = NULL THEN v
    ELSE XOR(v, WordFromBytes(memory[xorBlock], from, Len(v)))

\* ProcessAndXorBlock, first statement: InBlock iblk(inBlock);
\* iblk(m_wspace[0])(m_wspace[1]): the workspace afterwards
LoadBlock(c, ws, memory, inBlock) ==
    <<WordFromBytes(memory[inBlock], 1, WordBytes(c)),
      WordFromBytes(memory[inBlock], WordBytes(c) + 1, WordBytes(c)),
      ws[3], ws[4]>>

\* ProcessAndXorBlock, the switch: SIMON_Encrypt / SIMON_Decrypt
\* (m_wspace+2, m_wspace+0, m_rkeys): the workspace afterwards
RunRounds(dir, c, o, ws) ==
    IF ~HasRounds(c, o.rounds) THEN ws
    ELSE <<ws[1], ws[2]>> \o
         (IF dir = "enc"
          THEN SIMON_Encrypt(<<ws[1], ws[2]>>, o.rkeys, o.rounds)
          ELSE SIMON_Decrypt(<<ws[1], ws[2]>>, o.rkeys, o.rounds))

\* ProcessAndXorBlock, last statement: OutBlock oblk(xorBlock, outBlock);
\* oblk(m_wspace[2])(m_wspace[3]): the memory afterwards
StoreBlock(ws, memory, xorBlock, outBlock) ==
    [memory EXCEPT ![outBlock] =
        BytesFromWord(PutWord(ws[3], memory, xorBlock, 1)) \o
        BytesFromWord(PutWord(ws[4], memory, xorBlock, Len(ws[3]) + 1))]

\* ProcessAndXorBlock on return, the workspace being ws before the last
\* statement: the workspace and the memory
Processed(ws, memory, xorBlock, outBlock) ==
    [wspace |-> ws, mem |-> StoreBlock(ws, memory, xorBlock, outBlock)]

\* a transform that clears the output buffer before it reads the input
ProcessCleared(dir, c, o, memory, inBlock, xorBlock, outBlock) ==
    Processed(RunRounds(dir, c, o,
                        LoadBlock(c, o.wspace,
                                  [memory EXCEPT ![outBlock] = [j \in 1..Len(@) |-> 0]],
                                  inBlock)),
              memory, xorBlock, outBlock)

\* Enc::ProcessAndXorBlock and Dec::ProcessAndXorBlock of both classes:
\* the workspace and the memory after the call
ProcessAndXorBlock(dir, c, o, memory, inBlock, xorBlock, outBlock) ==
    Processed(RunRounds(dir, c, o, LoadBlock(c, o.wspace, memory, inBlock)),
              memory, xorBlock, outBlock)

\* the key lengths SetKey lets through to UncheckedSetKey
ValidKeyLength(c, n) ==
    IF c = "SIMON64" THEN n \in {12, 16} ELSE n \in {16, 24, 32}

---------------------------------------------------------------------------
(* Inputs.                                                                 *)

Classes == {"SIMON64", "SIMON128"}

Buffers == {"a", "b"}

GenBytes(s, n) == [j \in 1..n |-> (s * 89 + j * s * 53 + j * j * 7) % 256]

\* the keys, plaintexts and ciphertexts of the published vectors
Key64_96 ==
    <<\h13, \h12, \h11, \h10, \h0b, \h0a, \h09, \h08, \h03, \h02, \h01, \h00>>

Key64_128 ==
    <<\h1b, \h1a, \h19, \h18, \h13, \h12, \h11, \h10,
      \h0b, \h0a, \h09, \h08, \h03, \h02, \h01, \h00>>

Key128_128 ==
    <<\h0f, \h0e, \h0d, \h0c, \h0b, \h0a, \h09, \h08,
      \h07, \h06, \h05, \h04, \h03, \h02, \h01, \h00>>

Key128_192 ==
    <<\h17, \h16, \h15, \h14, \h13, \h12, \h11, \h10,
      \h0f, \h0e, \h0d, \h0c, \h0b, \h0a, \h09, \h08,
      \h07, \h06, \h05, \h04, \h03, \h02, \h01, \h00>>

Key128_256 ==
    <<\h1f, \h1e, \h1d, \h1c, \h1b, \h1a, \h19, \h18,
      \h17, \h16, \h15, \h14, \h13, \h12, \h11, \h10,
      \h0f, \h0e, \h0d, \h0c, \h0b, \h0a, \h09, \h08,
      \h07, \h06, \h05, \h04, \h03, \h02, \h01, \h00>>

Plain64_96 == <<\h6f, \h72, \h20, \h67, \h6e, \h69, \h6c, \h63>>

Cipher64_96 == <<\h5c, \ha2, \he2, \h7f, \h11, \h1a, \h8f, \hc8>>

Plain64_128 == <<\h65, \h6b, \h69, \h6c, \h20, \h64, \h6e, \h75>>

Cipher64_128 == <<\h44, \hc8, \hfc, \h20, \hb9, \hdf, \ha0, \h7a>>

Plain128_128 ==
    <<\h63, \h73, \h65, \h64, \h20, \h73, \h72, \h65,
      \h6c, \h6c, \h65, \h76, \h61, \h72, \h74, \h20>>

Cipher128_128 ==
    <<\h49, \h68, \h1b, \h1e, \h1e, \h54, \hfe, \h3f,
      \h65, \haa, \h83, \h2a, \hf8, \h4e, \h0b, \hbc>>

Plain128_192 ==
    <<\h20, \h65, \h72, \h65, \h68, \h74, \h20, \h6e,
      \h65, \h68, \h77, \h20, \h65, \h62, \h69, \h72>>

Cipher128_192 ==
    <<\hc4, \hac, \h61, \hef, \hfc, \hdc, \h0d, \h4f,
      \h6c, \h9c, \h8d, \h6e, \h25, \h97, \hb8, \h5b>>

Plain128_256 ==
    <<\h74, \h20, \h6e, \h69, \h20, \h6d, \h6f, \h6f,
      \h6d, \h69, \h73, \h20, \h61, \h20, \h73, \h69>>

Cipher128_256 ==
    <<\h8d, \h2b, \h55, \h79, \haf, \hc8, \ha3, \ha0,
      \h3b, \hf7, \h2a, \h87, \hef, \he7, \hb8, \h68>>

AcceptedLengths(c) == IF c = "SIMON64" THEN {12, 16} ELSE {16, 24, 32}

\* one byte below and above each accepted length
NearLengths(c) ==
    {n + d : n \in AcceptedLengths(c), d \in {-1, 1}} \ AcceptedLengths(c)

\* the user keys of accepted lengths a caller passes
GoodKeys(c) ==
    (IF c = "SIMON64" THEN {Key64_96, Key64_128}
     ELSE {Key128_128, Key128_192, Key128_256})
    \cup {GenBytes(s, n) : s \in 1..NKeys, n \in AcceptedLengths(c)}

\* all the user keys a caller passes
UserKeys(c) == GoodKeys(c) \cup {GenBytes(1, n) : n \in NearLengths(c)}

Blocks(c) ==
    (IF c = "SIMON64" THEN {Plain64_96, Plain64_128}
     ELSE {Plain128_128, Plain128_192, Plain128_256})
    \cup {GenBytes(s + 100, 2 * WordBytes(c)) : s \in 1..NBlocks}

ZeroBlock(c) == [j \in 1..(2 * WordBytes(c)) |-> 0]

\* no plaintext known for a buffer; no bytes
None == << >>

NoOrigin == [op |-> "none", from |-> None]

NoCall ==
    [op |-> "none", status |-> "", len |-> 0, inB |-> "", outB |-> "",
     pre |-> None, expect |-> None]

NoObj == [kwords |-> 0, rounds |-> 0, rkeys |-> << >>, wspace |-> << >>]

NoSnap == [key |-> None, obj |-> NoObj]

Idle == [pc |-> "idle"]

---------------------------------------------------------------------------
(* Spec: one caller.  The caller sets the key, any number of times, then   *)
(* writes a block to buffer a, then encrypts or decrypts its current block *)
(* in place or into the other buffer, at most MaxCalls times.              *)

Init ==
    /\ cls \in Classes
    /\ m_kwords = 0
    /\ m_rounds = 0
    /\ m_rkeys = << >>
    /\ m_wspace = << >>
    /\ mem = [b \in Buffers |-> ZeroBlock(cls)]
    /\ origin = [b \in Buffers |-> NoOrigin]
    /\ call = NoCall
    /\ snap = NoSnap
    /\ ncalls = 0
    /\ cur = NULL
    /\ thr = << >>
    /\ lp = Idle
    /\ ks = Idle

\* SetKey with a key of an accepted length: UncheckedSetKey runs
SetKeyOk ==
    \E key \in UserKeys(cls) :
        /\ cur = NULL
        /\ ValidKeyLength(cls, Len(key))
        /\ \E o \in {UncheckedSetKey(cls, Obj, key)} :
               /\ m_kwords' = o.kwords
               /\ m_rounds' = o.rounds
               /\ m_rkeys' = o.rkeys
               /\ m_wspace' = o.wspace
               /\ snap' = [key |-> key, obj |-> o]
        /\ origin' = [b \in Buffers |-> NoOrigin]
        /\ call' = [NoCall EXCEPT !.op = "SetKey", !.status = "ok",
                                  !.len = Len(key), !.pre = snap.key]
        /\ UNCHANGED <<cls, mem, ncalls, cur, thr, lp, ks>>

\* SetKey with a key of any other length: InvalidKeyLength is thrown
SetKeyRejected ==
    \E key \in UserKeys(cls) :
        /\ cur = NULL
        /\ ~ValidKeyLength(cls, Len(key))
        /\ call' = [NoCall EXCEPT !.op = "SetKey", !.status = "InvalidKeyLength",
                                  !.len = Len(key)]
        /\ UNCHANGED <<cls, m_kwords, m_rounds, m_rkeys, m_wspace, mem, origin,
                       snap, ncalls, cur, thr, lp, ks>>

\* the caller writes its block to buffer a
WriteBlock ==
    \E P \in Blocks(cls) :
        /\ m_rounds # 0
        /\ ncalls = 0
        /\ mem' = [mem EXCEPT !["a"] = P]
        /\ origin' = [origin EXCEPT !["a"] = NoOrigin]
        /\ cur' = "a"
        /\ call' = [NoCall EXCEPT !.op = "Write", !.outB = "a"]
        /\ UNCHANGED <<cls, m_kwords, m_rounds, m_rkeys, m_wspace, snap, ncalls,
                       thr, lp, ks>>

\* EncryptBlock(in, out): ProcessAndXorBlock(in, NULL, out) of Enc
EncryptBlock ==
    \E outB \in Buffers :
        /\ cur # NULL
        /\ ncalls < MaxCalls
        /\ \E r \in {ProcessAndXorBlock("enc", cls, Obj, mem, cur, NULL, outB)} :
               /\ m_wspace' = r.wspace
               /\ mem' = r.mem
        /\ origin' = [origin EXCEPT ![outB] = [op |-> "Enc", from |-> mem[cur]]]
        /\ call' = [NoCall EXCEPT !.op = "Enc", !.inB = cur, !.outB = outB,
                                  !.pre = mem[cur],
                                  !.expect = IF origin[cur].op = "Dec"
                                             THEN origin[cur].from ELSE None]
        /\ ncalls' = ncalls + 1
        /\ cur' = outB
        /\ UNCHANGED <<cls, m_kwords, m_rounds, m_rkeys, snap, thr, lp, ks>>

\* DecryptBlock(in, out): ProcessAndXorBlock(in, NULL, out) of Dec
DecryptBlock ==
    \E outB \in Buffers :
        /\ cur # NULL
        /\ ncalls < MaxCalls
        /\ \E r \in {ProcessAndXorBlock("dec", cls, Obj, mem, cur, NULL, outB)} :
               /\ m_wspace' = r.wspace
               /\ mem' = r.mem
        /\ origin' = [origin EXCEPT ![outB] = [op |-> "Dec", from |-> mem[cur]]]
        /\ call' = [NoCall EXCEPT !.op = "Dec", !.inB = cur, !.outB = outB,
                                  !.pre = mem[cur],
                                  !.expect = IF origin[cur].op = "Enc"
                                             THEN origin[cur].from ELSE None]
        /\ ncalls' = ncalls + 1
        /\ cur' = outB
        /\ UNCHANGED <<cls, m_kwords, m_rounds, m_rkeys, snap, thr, lp, ks>>

Next ==
    \/ SetKeyOk
    \/ SetKeyRejected
    \/ WriteBlock
    \/ EncryptBlock
    \/ DecryptBlock

Spec == Init /\ [][Next]_vars

---------------------------------------------------------------------------
(* SpecThreads: two threads share one configured object; each encrypts its *)
(* own input buffer into its own output buffer.  The statements of         *)
(* ProcessAndXorBlock are not synchronised, so the threads interleave      *)
(* between them.                                                           *)

Threads == {1, 2}

ThreadBuffers == {"in1", "out1", "in2", "out2"}

InOf(t) == IF t = 1 THEN "in1" ELSE "in2"

OutOf(t) == IF t = 1 THEN "out1" ELSE "out2"

\* an object on which SetKey(key) has returned
Configured(key) ==
    \E o \in {UncheckedSetKey(cls, NoObj, key)} :
        /\ m_kwords = o.kwords
        /\ m_rounds = o.rounds
        /\ m_rkeys = o.rkeys
        /\ m_wspace = o.wspace
        /\ snap = [key |-> key, obj |-> o]

ThreadInit ==
    /\ cls \in Classes
    /\ \E key \in GoodKeys(cls) : Configured(key)
    /\ \E P1 \in Blocks(cls), P2 \in Blocks(cls) :
           mem = [b \in ThreadBuffers |->
                     IF b = "in1" THEN P1 ELSE IF b = "in2" THEN P2
                     ELSE ZeroBlock(cls)]
    /\ thr = [t \in Threads |-> "load"]
    /\ origin = << >>
    /\ call = NoCall
    /\ ncalls = 0
    /\ cur = NULL
    /\ lp = Idle
    /\ ks = Idle

\* thread t: iblk(m_wspace[0])(m_wspace[1])
Load(t) ==
    /\ thr[t] = "load"
    /\ m_wspace' = LoadBlock(cls, m_wspace, mem, InOf(t))
    /\ thr' = [thr EXCEPT ![t] = "run"]
    /\ UNCHANGED <<cls, m_kwords, m_rounds, m_rkeys, mem, origin, call, snap,
                   ncalls, cur, lp, ks>>

\* thread t: SIMON_Encrypt(m_wspace+2, m_wspace+0, m_rkeys)
Run(t) ==
    /\ thr[t] = "run"
    /\ m_wspace' = RunRounds("enc", cls, Obj, m_wspace)
    /\ thr' = [thr EXCEPT ![t] = "store"]
    /\ UNCHANGED <<cls, m_kwords, m_rounds, m_rkeys, mem, origin, call, snap,
                   ncalls, cur, lp, ks>>

\* thread t: oblk(m_wspace[2])(m_wspace[3])
Store(t) ==
    /\ thr[t] = "store"
    /\ mem' = StoreBlock(m_wspace, mem, NULL, OutOf(t))
    /\ thr' = [thr EXCEPT ![t] = "done"]
    /\ UNCHANGED <<cls, m_kwords, m_rounds, m_rkeys, m_wspace, origin, call,
                   snap, ncalls, cur, lp, ks>>

ThreadNext == \E t \in Threads : Load(t) \/ Run(t) \/ Store(t)

SpecThreads == ThreadInit /\ [][ThreadNext]_vars

---------------------------------------------------------------------------
(* SpecLoop: one call of SIMON_Encrypt or SIMON_Decrypt on a configured    *)
(* object, one loop test at a time; steps counts the tests made.           *)

LoopInit ==
    /\ cls \in Classes
    /\ \E key \in GoodKeys(cls) : Configured(key)
    /\ \E P \in Blocks(cls) : mem = [b \in Buffers |-> P]
    /\ \E dir \in {"enc", "dec"} :
           lp = [dir |-> dir, R |-> m_rounds, steps |-> 0,
                 s |-> IF dir = "enc"
                       THEN EncStart(SubSeq(LoadBlock(cls, m_wspace, mem, "a"), 1, 2))
                       ELSE DecStart(SubSeq(LoadBlock(cls, m_wspace, mem, "a"), 1, 2))]
    /\ origin = << >>
    /\ call = NoCall
    /\ ncalls = 0
    /\ cur = "a"
    /\ thr = << >>
    /\ ks = Idle

EncLoopStep ==
    /\ lp.dir = "enc"
    /\ lp.s.pc # "done"
    /\ lp' = [lp EXCEPT !.s = EncStep(lp.s, m_rkeys, m_rounds), !.steps = @ + 1]
    /\ UNCHANGED <<cls, m_kwords, m_rounds, m_rkeys, m_wspace, mem, origin,
                   call, snap, ncalls, cur, thr, ks>>

DecLoopStep ==
    /\ lp.dir = "dec"
    /\ lp.s.pc # "done"
    /\ lp' = [lp EXCEPT !.s = DecStep(lp.s, m_rkeys, m_rounds), !.steps = @ + 1]
    /\ UNCHANGED <<cls, m_kwords, m_rounds, m_rkeys, m_wspace, mem, origin,
                   call, snap, ncalls, cur, thr, ks>>

LoopNext == EncLoopStep \/ DecLoopStep

SpecLoop == LoopInit /\ [][LoopNext]_vars

---------------------------------------------------------------------------
(* SpecExpand: one key expansion, one assignment to key[i] at a time, on   *)
(* the key words UncheckedSetKey has read into the workspace.              *)

ExpandInit ==
    /\ cls \in Classes
    /\ \E key \in GoodKeys(cls) :
           /\ m_kwords = KWords(cls, Len(key))
           /\ m_wspace = UserKeyWords(cls, key, m_kwords)
           /\ m_rounds = RoundsOf(cls, m_kwords)
           /\ m_rkeys = Fill(RKeysAlloc(cls, m_kwords), << >>)
           /\ snap = [key |-> key, obj |-> NoObj]
    /\ ks = [n |-> WordBytes(cls), m |-> m_kwords,
             s |-> ExpStart(m_wspace, WordBytes(cls), m_kwords)]
    /\ mem = [b \in Buffers |-> ZeroBlock(cls)]
    /\ origin = << >>
    /\ call = NoCall
    /\ ncalls = 0
    /\ cur = NULL
    /\ thr = << >>
    /\ lp = Idle

ExpandStep ==
    /\ ks.s.pc # "done"
    /\ ks' = [ks EXCEPT !.s = ExpStep(ks.s, ks.n, ks.m)]
    /\ UNCHANGED <<cls, m_kwords, m_rounds, m_rkeys, m_wspace, mem, origin,
                   call, snap, ncalls, cur, thr, lp>>

SpecExpand == ExpandInit /\ [][ExpandStep]_vars

---------------------------------------------------------------------------
(* Properties.                                                             *)

\* C1: round trip.  Whenever DecryptBlock is called on a block that
\* EncryptBlock produced under the same key, it returns the block that was
\* encrypted, for every variant, the 69-round one included.
C1_RoundTrip ==
    (call.op = "Dec" /\ call.expect # None) => mem[call.outB] = call.expect

C1_Witness ==
    /\ call.op = "Dec"
    /\ call.expect # None
    /\ m_rounds = 69
    /\ call.pre # call.expect
    /\ mem[call.outB] = call.expect

\* the block with its all-zero neighbour, as the two buffers of a call
\* from buffer a into buffer b
Apart(block) == [b \in Buffers |-> IF b = "a" THEN block ELSE ZeroBlock(cls)]

\* C2: thread safety.  When a thread has returned from EncryptBlock, its
\* output buffer holds what the same call made alone writes, whatever the
\* other thread did in between.
C2_ThreadSafe ==
    \A t \in Threads :
        thr[t] = "done" =>
            mem[OutOf(t)] =
                ProcessAndXorBlock("enc", cls, snap.obj, mem, InOf(t), NULL,
                                   OutOf(t)).mem[OutOf(t)]

\* the outcome of a transform of the block pre under the key of the last
\* setup is post
Gives(op, key, pre, post) ==
    (call.op = op /\ snap.key = key /\ call.pre = pre) => mem[call.outB] = post

\* C3: the published SIMON-128 vectors.  Under each published key,
\* encrypting the published plaintext gives the published ciphertext and
\* decrypting that ciphertext gives the plaintext back.
C3_Vectors128 ==
    /\ Gives("Enc", Key128_128, Plain128_128, Cipher128_128)
    /\ Gives("Dec", Key128_128, Cipher128_128, Plain128_128)
    /\ Gives("Enc", Key128_192, Plain128_192, Cipher128_192)
    /\ Gives("Dec", Key128_192, Cipher128_192, Plain128_192)
    /\ Gives("Enc", Key128_256, Plain128_256, Cipher128_256)
    /\ Gives("Dec", Key128_256, Cipher128_256, Plain128_256)

C3_Witness ==
    /\ call.op = "Dec"
    /\ snap.key = Key128_192
    /\ call.pre = Cipher128_192
    /\ mem[call.outB] = Plain128_192

\* C4: the published SIMON-64 vectors.  Under each published key,
\* encrypting the published plaintext gives the published ciphertext and
\* decrypting that ciphertext gives the plaintext back.
C4_Vectors64 ==
    /\ Gives("Enc", Key64_128, Plain64_128, Cipher64_128)
    /\ Gives("Dec", Key64_128, Cipher64_128, Plain64_128)
    /\ Gives("Enc", Key64_96, Plain64_96, Cipher64_96)
    /\ Gives("Dec", Key64_96, Cipher64_96, Plain64_96)

C4_Witness ==
    /\ call.op = "Dec"
    /\ snap.key = Key64_96
    /\ call.pre = Cipher64_96
    /\ mem[call.outB] = Plain64_96

C6_ScheduleLength ==
    m_rounds # 0 =>
        /\ m_kwords * WordBytes(cls) = Len(snap.key)
        /\ m_rounds = (CASE cls = "SIMON64" /\ m_kwords = 3 -> 42
                         [] cls = "SIMON64" /\ m_kwords = 4 -> 44
                         [] cls = "SIMON128" /\ m_kwords = 2 -> 68
                         [] cls = "SIMON128" /\ m_kwords = 3 -> 69
                         [] cls = "SIMON128" /\ m_kwords = 4 -> 72
                         [] OTHER -> 0)
        /\ Len(m_rkeys) = m_rounds
        /\ \A j \in 1..Len(m_rkeys) : Len(m_rkeys[j]) = WordBytes(cls)

C6_Witness ==
    /\ call.op = "SetKey"
    /\ call.status = "ok"
    /\ Len(call.pre) = 32
    /\ call.len = 16
    /\ m_rounds = 68
    /\ Len(m_rkeys) = 68

\* C7: read-only use.  After an EncryptBlock or DecryptBlock call, every
\* field of the object has the value it had right after the last SetKey.
C7_ReadOnly ==
    call.op \in {"Enc", "Dec"} => Obj = snap.obj

\* C8: in place.  A transform whose output buffer is its input buffer
\* leaves there the bytes that the same transform of the same block writes
\* to a separate buffer.
C8_InPlace ==
    (call.op \in {"Enc", "Dec"} /\ call.inB = call.outB) =>
        mem[call.outB] =
            ProcessAndXorBlock(IF call.op = "Enc" THEN "enc" ELSE "dec", cls,
                               snap.obj, Apart(call.pre), "a", NULL, "b").mem["b"]

C8_Witness ==
    /\ call.op = "Enc"
    /\ call.inB = call.outB
    /\ snap.key = Key128_256
    /\ call.pre = Plain128_256
    /\ mem[call.outB] = Cipher128_256

\* bit t of the word64 z
ZBit(z, t) == Bit(z[(t \div 8) + 1], t % 8)

\* the index of key[] the expansion wrote last
Written == ks.s.i - 1

\* C9: the tail of the z sequence.  In a SIMON128 expansion, the term
\* XORed into key[i] at a position i - m of 62 or more, in the loop or on a
\* line after it, is bit (i - m) mod 62 of the expansion's z; on the lines
\* after the loop it is the constant listed for the index; and the
\* expansion ends with 68, 69 or 72 words written.
C9_TailBits ==
    ks.n = 8 =>
        /\ (Written >= ks.m /\ Written - ks.m >= 62) =>
               ks.s.term = ZBit(ZConst(8, ks.m), (Written - ks.m) % 62)
        /\ (ks.m = 2 /\ Written = 66) => ks.s.term = 1
        /\ (ks.m = 2 /\ Written = 67) => ks.s.term = 0
        /\ (ks.m = 3 /\ Written = 67) => ks.s.term = 0
        /\ (ks.m = 3 /\ Written = 68) => ks.s.term = 1
        /\ (ks.m = 4 /\ Written = 68) => ks.s.term = 0
        /\ (ks.m = 4 /\ Written = 69) => ks.s.term = 1
        /\ (ks.m = 4 /\ Written = 70) => ks.s.term = 0
        /\ (ks.m = 4 /\ Written = 71) => ks.s.term = 0
        /\ ks.s.pc = "done" =>
               Len(ks.s.key) = (IF ks.m = 2 THEN 68 ELSE IF ks.m = 3 THEN 69 ELSE 72)

C9_Witness ==
    /\ ks.n = 8
    /\ ks.m = 4
    /\ Written = 69
    /\ ks.s.term = 1
    /\ Len(ks.s.key) = 70

\* the indices 0, 1, ..., R - 1
Ascending(R) == [j \in 1..R |-> j - 1]

\* the indices R - 1, ..., 1, 0
Descending(R) == [j \in 1..R |-> R - j]

\* C10: order of the round keys and termination.  For each round count 42,
\* 44, 68, 69, 72, SIMON_Encrypt reads k[0], ..., k[R-1] once each in
\* ascending order and SIMON_Decrypt reads them once each in descending
\* order, and no read falls outside 0..R-1.  All loop tests but two are
\* followed by reads of round keys, so the function returns after at most
\* R + 2 tests, and it returns with all R keys read; SIMON_Decrypt leaves
\* its loop with the counter wrapped below zero.
C10_Consumption ==
    /\ Len(lp.s.reads) <= lp.R
    /\ lp.s.reads = SubSeq(IF lp.dir = "enc" THEN Ascending(lp.R)
                           ELSE Descending(lp.R), 1, Len(lp.s.reads))
    /\ lp.steps <= Len(lp.s.reads) + 2
    /\ lp.s.pc = "done" =>
           /\ Len(lp.s.reads) = lp.R
           /\ lp.dir = "dec" => CastInt(lp.s.i) < 0

C10_Witness ==
    /\ lp.dir = "dec"
    /\ lp.R = 69
    /\ lp.s.pc = "done"
    /\ lp.s.i = SizeSub(SizeT(0), 2)
    /\ lp.s.reads = Descending(69)

=============================================================================
